---------------------------- MODULE Spec2Model ----------------------------
(***************************************************************************)
(* A state-machine model of the interactive generative-art front end:      *)
(*   - the canvas components (SunburstEffect, the canvas HexagonalCircles, *)
(*     the canvas MathPatterns) with their requestAnimationFrame loops;    *)
(*   - the cosmic-tunnel HexagonalCircles with its load animation;         *)
(*   - generatePositions of CircleArt;                                     *)
(*   - Supershapes and its keyboard handler;                               *)
(*   - the Home page and CircleArt's control toggles.                      *)
(*                                                                         *)
(* Environment: React 18 (concurrent root).  An update made in a discrete  *)
(* event (click, keydown, mousedown, mouseup, pointerdown, pointerup) is   *)
(* rendered and its passive effects are flushed before the event task      *)
(* ends.  An update made in a continuous event (mousemove, mouseleave) or  *)
(* in an animation-frame callback is rendered later, and the passive       *)
(* effects of that render later still; animation frames may run in         *)
(* between.  The browser keeps a set of pending animation-frame requests,  *)
(* runs each pending callback once and knows nothing of React.             *)
(*                                                                         *)
(* Numbers the code keeps as floats are kept as scaled integers:           *)
(* thousandths (timeRef, positions, angles in milliradians) or hundredths  *)
(* (wormholeRef).                                                          *)
(***************************************************************************)
EXTENDS Integers, Sequences, FiniteSets, TLC

VARIABLES
  \* ---- canvas components (SunburstEffect, HexagonalCircles, MathPatterns)
  kind,               \* which canvas component is on the page
  canvas,             \* "ok" | "noctx" (getContext('2d') is null) | "null" (canvasRef.current is null)
  phase,              \* "rendered" (effects not yet run) | "mounted" | "unmounted"
  listeners,          \* event listeners registered by the set-up effect
  mousePos,           \* useState mousePos (committed)
  isClicking,         \* useState isClicking (committed)
  effectDirty,        \* a committed render changed [mousePos, isClicking]; the effect re-run is pending
  rafPending,         \* the browser's pending animation-frame requests (handle and closure)
  animationFrameRef,  \* animationFrameRef.current
  nextHandle,         \* the handle the next requestAnimationFrame returns
  timeRef,            \* timeRef.current, in thousandths
  wormholeRef,        \* wormholeRef.current, in hundredths
  particles,          \* SunburstEffect: useState particles (committed), a list of particle ids
  baseParticles,      \* React's base state of the particles hook (before the first skipped update)
  updates,            \* React's queue of particle updates not yet rendered or to be rebased
  particlesRef,       \* particlesRef.current
  syncDirty,          \* a committed render changed particles; the ref-sync effect is pending
  life,               \* the heap of SunburstParticle objects: lifespan by particle id
  animateCount,       \* history: the number of animate() executions
  animateAfterUnmount,\* history: animate() executions after the unmount
  effectRuns          \* history: the number of runs of the animation effect

canvasVars == << kind, canvas, phase, listeners, mousePos, isClicking,
                 effectDirty, rafPending, animationFrameRef, nextHandle, timeRef,
                 wormholeRef, particles, baseParticles, updates, particlesRef,
                 syncDirty, life, animateCount, animateAfterUnmount, effectRuns >>

VARIABLES
  \* ---- cosmic-tunnel HexagonalCircles
  tunnelPhase,        \* "rendered" | "mounted" | "unmounted"
  now,                \* Date.now(), in ticks
  startTime,          \* startTime of the load-animation effect, in ticks
  loadProgress,       \* useState loadProgress, in thousandths
  loadPending,        \* the pending animation-frame requests of animateLoading (handles)
  loadHandle,         \* the handle the next requestAnimationFrame returns
  tunnelClicking,     \* useState isClicking of the tunnel component
  loadCalls,          \* history: calls of setLoadProgress
  loadCallsAfterUnmount, \* history: calls of setLoadProgress after the unmount
  \* ---- CosmicTunnel, one circle of circlesRef
  particleSpeed,      \* prop particleSpeed (Home state), in tenths
  circle,             \* [speed, z]: circle.speed and circle.position[2], in thousandths
  tunnelFrames,       \* history: calls of the useFrame callback
  lastAdvance,        \* history: what the last frame added to circle.position[2]
  lastPointer         \* history: the last pointer event handled, "none" at first

flightVars == << particleSpeed, circle, tunnelFrames, lastAdvance >>

tunnelVars == << tunnelPhase, now, startTime, loadProgress, loadPending,
                 loadHandle, tunnelClicking, loadCalls, loadCallsAfterUnmount,
                 flightVars, lastPointer >>

VARIABLES
  \* ---- generatePositions (CircleArt)
  gpParams,           \* params: count, distribution, motionPattern, interactivity
  gpTime,             \* time, in thousandths
  gpMouse,            \* mousePos, in thousandths
  gpCalls,            \* how many of the two calls were made
  gpFirst,            \* the positions the first call returned
  gpSecond            \* the positions the second call returned

posVars == << gpParams, gpTime, gpMouse, gpCalls, gpFirst, gpSecond >>

VARIABLES
  \* ---- Supershapes
  shapesMounted,      \* the Supershapes view is on the page
  activeShape,        \* useState activeShape
  shapeParams,        \* useState shapeParams: type, animation, wireframe by shape
  shapesClicking,     \* useState isClicking of Supershapes
  aPresses,           \* history: consecutive presses of a/A on the same shape
  aStart              \* history: the animation of the shape before these presses

shapeVars == << shapesMounted, activeShape, shapeParams, shapesClicking,
                aPresses, aStart >>

VARIABLES
  \* ---- Home and CircleArt
  activePattern,      \* Home: useState activePattern
  showControls,       \* Home: useState showControls
  isDarkMode,         \* Home: useState isDarkMode
  selectedShape,      \* Home: useState selectedShape
  params,             \* CircleArt: useState params (type, interactivity)
  showShapeControls   \* CircleArt: useState showShapeControls

pageVars == << activePattern, showControls, isDarkMode, selectedShape, params,
               showShapeControls >>

VARIABLES
  \* ---- history of the input events
  lastEvent,          \* the last input event handled ("key:c", "click:toggle", ...)
  eventCount          \* the number of input events handled

eventVars == << lastEvent, eventCount >>

VARIABLES
  \* ---- parametric-surface MathPatterns
  artParams           \* useState params (amplitude and frequency in tenths)

artVars == << artParams >>

vars == << canvasVars, tunnelVars, posVars, shapeVars, pageVars, eventVars, artVars >>

nonCanvasVars == << tunnelVars, posVars, shapeVars, pageVars, eventVars, artVars >>
nonTunnelVars == << canvasVars, posVars, shapeVars, pageVars, eventVars, artVars >>
nonPosVars == << canvasVars, tunnelVars, shapeVars, pageVars, eventVars, artVars >>
nonShapeVars == << canvasVars, tunnelVars, posVars, pageVars, artVars >>
nonPageVars == << canvasVars, tunnelVars, posVars, shapeVars, artVars >>
nonArtVars == << canvasVars, tunnelVars, posVars, shapeVars, pageVars, eventVars >>

-----------------------------------------------------------------------------
(* Bounds of the model *)

\* the browser hands out animation-frame handles 1..MaxHandle
MaxHandle == 5
\* mouse positions 0..MaxMouse
MaxMouse == 1
\* a click creates BurstSize particles (the loop bound of handleClick, scaled)
BurstSize == 1
\* at most MaxClicks clicks on the sunburst canvas
MaxClicks == 2
\* a new particle lives 1..MaxLife frames (maxLifespan, scaled)
MaxLife == 2

\* the clock runs from 0 to MaxNow ticks
MaxNow == 6
\* the load animation's duration is TicksPerLoad ticks of the clock
TicksPerLoad == 4
\* the browser hands out load-animation handles 1..MaxLoadHandle
MaxLoadHandle == 6

\* at most MaxFrames calls of the useFrame callback of CosmicTunnel
MaxFrames == 3

\* a slider is moved to its ends or to one of the first SliderSteps steps
SliderSteps == 2

\* generatePositions is called with count in 1..MaxCount
MaxCount == 3

\* the outcomes of Math.random() are enumerated as streams of period MaxDraws
MaxDraws == 3

\* at most MaxEvents keyboard and button events are handled
MaxEvents == 6

(* Program constants *)

\* defaultParams.interactivity of CircleArt
DefaultInteractivity == 7
\* the interactivity slider: min
InteractivityMin == 0
\* the interactivity slider: max
InteractivityMax == 10

\* Math.PI, in thousandths
Pi == 3142

\* const duration = 4000 (ms)
Duration == 4000

\* useState(1.0) of particleSpeed, in tenths
DefaultParticleSpeed == 10
\* isClicking ? 2.5 : 1.0, in tenths
ClickSpeedMultiplier == 25
PlainSpeedMultiplier == 10
\* circle.position[2] > 15, in thousandths
CameraDepth == 15000

\* timeRef.current += 0.003 (canvas HexagonalCircles), in thousandths
GeodesicTimeStep == 3
\* timeRef.current += 0.01 (canvas MathPatterns), in thousandths
PatternsTimeStep == 10
\* wormholeRef.current + 0.03, in hundredths
WormholeUp == 3
\* wormholeRef.current - 0.02, in hundredths
WormholeDown == 2
\* Math.min(1, ...) of the wormhole effect, in hundredths
WormholeMax == 100

\* the values Math.random() returns, in thousandths
RandomValues == {100, 800}

Kinds == {"Sunburst", "Geodesic", "MathPatterns"}

Min(a, b) == IF a < b THEN a ELSE b
Max(a, b) == IF a > b THEN a ELSE b

SeqToSet(s) == {s[i] : i \in DOMAIN s}

-----------------------------------------------------------------------------
(* The canvas components *)

\* The mutable state an animation step reads and writes, as one record.
Cur ==
  [ timeRef |-> timeRef, wormholeRef |-> wormholeRef,
    animationFrameRef |-> animationFrameRef, rafPending |-> rafPending,
    nextHandle |-> nextHandle, life |-> life, updates |-> updates,
    particlesRef |-> particlesRef, animateCount |-> animateCount,
    animateAfterUnmount |-> animateAfterUnmount, effectRuns |-> effectRuns ]

\* cancelAnimationFrame(handle): the request, if still pending, is dropped.
cancelAnimationFrame(pending, handle) == {r \in pending : r.id # handle}

\* requestAnimationFrame(animate), the handle stored in animationFrameRef.current:
\* the closure keeps the mousePos and isClicking of the effect run that made it.
RequestFrameLost(c, m, clk) ==
  [c EXCEPT !.rafPending = @ \cup {[id |-> c.nextHandle, mouse |-> m, clicking |-> clk]},
            !.nextHandle = @ + 1]

RequestFrame(c, m, clk) ==
  [c EXCEPT !.rafPending = @ \cup {[id |-> c.nextHandle, mouse |-> m, clicking |-> clk]},
            !.animationFrameRef = c.nextHandle,
            !.nextHandle = @ + 1]

\* SunburstParticle.update() on every particle of particlesRef.current: the
\* lifespan goes down by one; the particle is alive while it is positive.
UpdateParticles(c) ==
  [i \in DOMAIN c.life |->
     IF i \in SeqToSet(c.particlesRef) THEN c.life[i] - 1 ELSE c.life[i]]

IsAlive(lf, i) == lf[i] > 0

\* The body of animate() of SunburstEffect up to the frame request.
SunburstStep(c) ==
  LET lf == UpdateParticles(c)
      updatedParticles == SelectSeq(c.particlesRef, LAMBDA i : IsAlive(lf, i))
  IN [c EXCEPT !.life = lf,
               !.updates = IF Len(updatedParticles) # Len(c.particlesRef)
                           THEN Append(@, [op |-> "replace", items |-> updatedParticles])
                           ELSE @]

\* The body of animate() of the canvas HexagonalCircles up to the frame request.
GeodesicStep(c, clk) ==
  [c EXCEPT !.timeRef = @ + GeodesicTimeStep,
            !.wormholeRef = IF clk THEN Min(WormholeMax, @ + WormholeUp)
                            ELSE Max(0, @ - WormholeDown)]

\* The body of animate() of the canvas MathPatterns up to the frame request.
PatternsStep(c) == [c EXCEPT !.timeRef = @ + PatternsTimeStep]

\* animate(): one animation step of the component, then the next frame request.
animate(c, m, clk) ==
  LET stepped == CASE kind = "Sunburst" -> SunburstStep(c)
                   [] kind = "Geodesic" -> GeodesicStep(c, clk)
                   [] OTHER -> PatternsStep(c)
      counted == [stepped EXCEPT !.animateCount = @ + 1,
                                 !.animateAfterUnmount =
                                    IF phase = "unmounted" THEN @ + 1 ELSE @]
  IN RequestFrame(counted, m, clk)

\* The clean-up of the animation effect.
AnimationCleanupNone(c) == c

AnimationCleanup(c) ==
  [c EXCEPT !.rafPending = cancelAnimationFrame(@, c.animationFrameRef)]

\* The clean-up of the set-up effect, as far as the animation goes (the
\* listeners are dropped by the action).
SetupCleanup(c) ==
  [c EXCEPT !.rafPending = cancelAnimationFrame(@, c.animationFrameRef)]

\* The listeners the set-up effect registers.
SetupListeners(k, cv) ==
  IF cv # "ok" THEN {}
  ELSE CASE k = "Sunburst" -> {"resize"}
         [] k = "Geodesic" -> {"resize", "mousemove", "mousedown", "mouseup", "mouseleave"}
         [] OTHER -> {"resize", "mousemove", "mousedown", "mouseup"}

\* The animation effect: the guards, then animate().
AnimationEffect(c, m, clk) ==
  IF canvas # "ok" THEN c
  ELSE animate([c EXCEPT !.effectRuns = @ + 1], m, clk)

\* The animation effect is torn down and run again (its dependencies changed).
RerunAnimationEffect(c, m, clk) == AnimationEffect(AnimationCleanup(c), m, clk)

\* Pending passive effects are flushed before React renders again.
FlushPending(c) ==
  IF effectDirty THEN RerunAnimationEffect(c, mousePos, isClicking) ELSE c

\* Write the record back to the variables.
Store(c) ==
  /\ c.nextHandle <= MaxHandle + 1
  /\ timeRef' = c.timeRef
  /\ wormholeRef' = c.wormholeRef
  /\ animationFrameRef' = c.animationFrameRef
  /\ rafPending' = c.rafPending
  /\ nextHandle' = c.nextHandle
  /\ life' = c.life
  /\ updates' = c.updates
  /\ particlesRef' = c.particlesRef
  /\ animateCount' = c.animateCount
  /\ animateAfterUnmount' = c.animateAfterUnmount
  /\ effectRuns' = c.effectRuns

CanvasInit ==
  /\ kind \in Kinds
  /\ canvas \in {"ok", "noctx", "null"}
  /\ phase = "rendered"
  /\ listeners = {}
  /\ mousePos = 0
  /\ isClicking = FALSE
  /\ effectDirty = FALSE
  /\ rafPending = {}
  /\ animationFrameRef = 0
  /\ nextHandle = 1
  /\ timeRef = 0
  /\ wormholeRef = 0
  /\ particles = << >>
  /\ baseParticles = << >>
  /\ updates = << >>
  /\ particlesRef = << >>
  /\ syncDirty = FALSE
  /\ life = << >>
  /\ animateCount = 0
  /\ animateAfterUnmount = 0
  /\ effectRuns = 0

\* The effects of the mount, in the order of the component: (SunburstEffect:
\* the ref-sync effect,) the set-up effect, the animation effect.
MountEffects ==
  /\ phase = "rendered"
  /\ phase' = "mounted"
  /\ listeners' = SetupListeners(kind, canvas)
  /\ Store(AnimationEffect([Cur EXCEPT !.particlesRef = particles], mousePos, isClicking))
  /\ UNCHANGED << nonCanvasVars, kind, canvas, mousePos, isClicking, effectDirty, particles,
                  baseParticles, syncDirty >>

\* handleMouseMove: setMousePos of a new object; a continuous event, so the
\* effect re-run comes later.
MouseMove(p) ==
  /\ "mousemove" \in listeners
  /\ mousePos' = p
  /\ effectDirty' = TRUE
  /\ UNCHANGED << nonCanvasVars, kind, canvas, phase, listeners, isClicking, rafPending,
                  animationFrameRef, nextHandle, timeRef, wormholeRef, particles,
                  baseParticles, updates, particlesRef, syncDirty, life,
                  animateCount, animateAfterUnmount, effectRuns >>

\* The deferred passive effects of a render run: the animation effect is torn
\* down and run again, which calls animate().
FlushEffects ==
  /\ phase = "mounted"
  /\ effectDirty
  /\ effectDirty' = FALSE
  /\ Store(RerunAnimationEffect(Cur, mousePos, isClicking))
  /\ UNCHANGED << nonCanvasVars, kind, canvas, phase, listeners, mousePos, isClicking, particles,
                  baseParticles, syncDirty >>

\* setIsClicking(v) in a discrete event: nothing when the state is v already;
\* else pending effects are flushed, the state is rendered and the animation
\* effect is torn down and run again before the event ends.
SetClickingNow(v) ==
  IF isClicking = v
  THEN UNCHANGED vars
  ELSE /\ isClicking' = v
       /\ effectDirty' = FALSE
       /\ Store(RerunAnimationEffect(FlushPending(Cur), mousePos, v))
       /\ UNCHANGED << nonCanvasVars, kind, canvas, phase, listeners, mousePos, particles,
                       baseParticles, syncDirty >>

\* handleMouseDown
MouseDown ==
  /\ "mousedown" \in listeners
  /\ SetClickingNow(TRUE)

\* handleMouseUp
MouseUp ==
  /\ "mouseup" \in listeners
  /\ SetClickingNow(FALSE)

\* handleMouseLeave (canvas HexagonalCircles): a continuous event.
MouseLeave ==
  /\ "mouseleave" \in listeners
  /\ isClicking
  /\ isClicking' = FALSE
  /\ effectDirty' = TRUE
  /\ UNCHANGED << nonCanvasVars, kind, canvas, phase, listeners, mousePos, rafPending,
                  animationFrameRef, nextHandle, timeRef, wormholeRef, particles,
                  baseParticles, updates, particlesRef, syncDirty, life,
                  animateCount, animateAfterUnmount, effectRuns >>

\* React's processing of a hook's update queue from the base state.
\* the last replacement wins and the appends are dropped
ApplyUpdatesLastWins(state, queue) ==
  LET replaced == {i \in DOMAIN queue : queue[i].op = "replace"}
  IN IF replaced = {} THEN state
     ELSE queue[CHOOSE i \in replaced : \A j \in replaced : j <= i].items

RECURSIVE ApplyUpdates(_, _)
ApplyUpdates(state, queue) ==
  IF queue = << >> THEN state
  ELSE ApplyUpdates(IF Head(queue).op = "replace" THEN Head(queue).items
                    ELSE state \o Head(queue).items,
                    Tail(queue))

\* handleClick of SunburstEffect (the canvas's onClick): BurstSize new
\* particles are appended to the state.  A discrete event: the state is
\* rendered (updates of animation frames still queued are skipped and the
\* append is kept for the rebase) and particlesRef is synchronised before
\* the event ends.
NewParticles == {s \in [1..BurstSize -> 1..MaxLife] : TRUE}

Click(lifespans) ==
  /\ kind = "Sunburst"
  /\ phase = "mounted"
  /\ canvas # "null"
  /\ Len(life) < MaxClicks * BurstSize
  /\ LET ids == [i \in 1..BurstSize |-> Len(life) + i]
         appended == particles \o ids
     IN /\ life' = life \o [i \in 1..BurstSize |-> lifespans[i]]
        /\ particles' = appended
        /\ particlesRef' = appended
        /\ IF updates = << >>
           THEN /\ baseParticles' = appended
                /\ updates' = updates
           ELSE /\ baseParticles' = baseParticles
                /\ updates' = Append(updates, [op |-> "append", items |-> ids])
  /\ syncDirty' = FALSE
  /\ UNCHANGED << nonCanvasVars, kind, canvas, phase, listeners, mousePos, isClicking,
                  effectDirty, rafPending, animationFrameRef, nextHandle, timeRef,
                  wormholeRef, animateCount, animateAfterUnmount, effectRuns >>

\* React renders the particle updates queued by animation frames: pending
\* passive effects are flushed first, the queue is processed from the base
\* state, and the ref-sync effect of the new render is deferred.
RenderParticles ==
  /\ phase = "mounted"
  /\ \E i \in DOMAIN updates : updates[i].op = "replace"
  /\ particlesRef' = IF syncDirty THEN particles ELSE particlesRef
  /\ particles' = ApplyUpdates(baseParticles, updates)
  /\ baseParticles' = particles'
  /\ updates' = << >>
  /\ syncDirty' = TRUE
  /\ UNCHANGED << nonCanvasVars, kind, canvas, phase, listeners, mousePos, isClicking,
                  effectDirty, rafPending, animationFrameRef, nextHandle, timeRef,
                  wormholeRef, life, animateCount, animateAfterUnmount, effectRuns >>

\* The ref-sync effect: particlesRef.current = particles.
SyncParticlesRef ==
  /\ phase = "mounted"
  /\ syncDirty
  /\ particlesRef' = particles
  /\ syncDirty' = FALSE
  /\ UNCHANGED << nonCanvasVars, kind, canvas, phase, listeners, mousePos, isClicking,
                  effectDirty, rafPending, animationFrameRef, nextHandle, timeRef,
                  wormholeRef, particles, baseParticles, updates, life,
                  animateCount, animateAfterUnmount, effectRuns >>

\* The browser runs a pending animation-frame callback: animate() with the
\* values its closure holds.
Frame(r) ==
  /\ r \in rafPending
  /\ Store(animate([Cur EXCEPT !.rafPending = @ \ {r}], r.mouse, r.clicking))
  /\ UNCHANGED << nonCanvasVars, kind, canvas, phase, listeners, mousePos, isClicking,
                  effectDirty, particles, baseParticles, syncDirty >>

\* The component is unmounted (a click on another visualization): pending
\* passive effects are flushed, then the clean-ups of the set-up effect and of
\* the animation effect run (both were set up only when the guards passed).
UnmountCleanups(c) == IF canvas = "ok" THEN AnimationCleanup(SetupCleanup(c)) ELSE c

Unmount ==
  /\ phase = "mounted"
  /\ phase' = "unmounted"
  /\ listeners' = {}
  /\ effectDirty' = FALSE
  /\ syncDirty' = FALSE
  /\ Store(UnmountCleanups(FlushPending(Cur)))
  /\ UNCHANGED << nonCanvasVars, kind, canvas, mousePos, isClicking, particles, baseParticles >>

CanvasNext ==
  \/ MountEffects
  \/ \E p \in 0..MaxMouse : MouseMove(p)
  \/ FlushEffects
  \/ MouseDown
  \/ MouseUp
  \/ MouseLeave
  \/ \E l \in NewParticles : Click(l)
  \/ RenderParticles
  \/ SyncParticlesRef
  \/ \E r \in rafPending : Frame(r)
  \/ Unmount

-----------------------------------------------------------------------------
(* The cosmic-tunnel HexagonalCircles: the page-load animation *)

\* Date.now() - startTime, in ms
Elapsed(t, start) == ((t - start) * Duration) \div TicksPerLoad

\* Math.min(1, elapsed / duration), in thousandths
Progress(elapsed) == Min(1000, (elapsed * 1000) \div Duration)

\* progress < 0.5 ? 4 p^3 : 1 - (-2p + 2)^3 / 2, in thousandths
EasedProgress(p) ==
  IF p < 500 THEN (4 * p * p * p) \div 1000000
  ELSE 1000 - (((2000 - 2 * p) * (2000 - 2 * p) * (2000 - 2 * p)) \div 2) \div 1000000

\* The clean-up the load-animation effect returns: its body is empty.
LoadCleanup(pending) == pending

TunnelInit ==
  /\ tunnelPhase = "rendered"
  /\ now = 0
  /\ startTime = 0
  /\ loadProgress = 0
  /\ loadPending = {}
  /\ loadHandle = 1
  /\ tunnelClicking = FALSE
  /\ loadCalls = 0
  /\ loadCallsAfterUnmount = 0
  /\ particleSpeed = DefaultParticleSpeed
  /\ circle = [speed |-> 0, z |-> 0]
  /\ tunnelFrames = 0
  /\ lastAdvance = 0
  /\ lastPointer = "none"

\* The circle the effect of CosmicTunnel creates: z = -80 - random * 50,
\* speed = 2 + random * 3.
NewCircle(r) == [speed |-> 2000 + r.speed * 3, z |-> -80000 - r.z * 50]

\* The effects at mount. Load animation: startTime = Date.now(), then the
\* first request. CosmicTunnel: the circle is created.
TunnelMount(r) ==
  /\ tunnelPhase = "rendered"
  /\ tunnelPhase' = "mounted"
  /\ circle' = NewCircle(r)
  /\ startTime' = now
  /\ loadPending' = loadPending \cup {loadHandle}
  /\ loadHandle' = loadHandle + 1
  /\ UNCHANGED << nonTunnelVars, now, loadProgress, tunnelClicking, loadCalls,
                  loadCallsAfterUnmount, particleSpeed, tunnelFrames, lastAdvance,
                  lastPointer >>

\* The clock advances.
Tick ==
  /\ now < MaxNow
  /\ now' = now + 1
  /\ UNCHANGED << nonTunnelVars, tunnelPhase, startTime, loadProgress, loadPending,
                  loadHandle, tunnelClicking, loadCalls, loadCallsAfterUnmount,
                  flightVars, lastPointer >>

\* animateLoading, run by the browser as an animation-frame callback.  React
\* drops a state update of an unmounted component; the call is made all the same.
animateLoading(h) ==
  /\ h \in loadPending
  /\ LET progress == Progress(Elapsed(now, startTime))
     IN /\ loadProgress' = IF tunnelPhase = "mounted"
                           THEN EasedProgress(progress) ELSE loadProgress
        /\ loadCalls' = loadCalls + 1
        /\ loadCallsAfterUnmount' =
             IF tunnelPhase = "unmounted" THEN loadCallsAfterUnmount + 1
             ELSE loadCallsAfterUnmount
        /\ IF progress < 1000
           THEN /\ loadHandle <= MaxLoadHandle
                /\ loadPending' = (loadPending \ {h}) \cup {loadHandle}
                /\ loadHandle' = loadHandle + 1
           ELSE /\ loadPending' = loadPending \ {h}
                /\ loadHandle' = loadHandle
  /\ UNCHANGED << nonTunnelVars, tunnelPhase, now, startTime, tunnelClicking,
                  flightVars, lastPointer >>

\* handlePointerDown
PointerDown ==
  /\ tunnelPhase = "mounted"
  /\ tunnelClicking' = TRUE
  /\ lastPointer' = "down"
  /\ UNCHANGED << nonTunnelVars, tunnelPhase, now, startTime, loadProgress,
                  loadPending, loadHandle, loadCalls, loadCallsAfterUnmount,
                  flightVars >>

\* handlePointerUp
PointerUp ==
  /\ tunnelPhase = "mounted"
  /\ tunnelClicking' = FALSE
  /\ lastPointer' = "up"
  /\ UNCHANGED << nonTunnelVars, tunnelPhase, now, startTime, loadProgress,
                  loadPending, loadHandle, loadCalls, loadCallsAfterUnmount,
                  flightVars >>

\* handlePointerLeave
PointerLeave ==
  /\ tunnelPhase = "mounted"
  /\ tunnelClicking' = FALSE
  /\ lastPointer' = "leave"
  /\ UNCHANGED << nonTunnelVars, tunnelPhase, now, startTime, loadProgress,
                  loadPending, loadHandle, loadCalls, loadCallsAfterUnmount,
                  flightVars >>

\* The component is unmounted: the effect's clean-up runs.
TunnelUnmount ==
  /\ tunnelPhase = "mounted"
  /\ tunnelPhase' = "unmounted"
  /\ loadPending' = LoadCleanup(loadPending)
  /\ UNCHANGED << nonTunnelVars, now, startTime, loadProgress, loadHandle,
                  tunnelClicking, loadCalls, loadCallsAfterUnmount, flightVars,
                  lastPointer >>

\* The values the particle-speed slider of the page can take, in tenths
\* (min 0.5, max 3, step 0.1): the ends and the default.
ParticleSpeeds == {5, 10, 30}

\* The frame deltas, in milliseconds.
FrameDeltas == {16, 33}

\* Home: the particle-speed slider, onChange.
SetParticleSpeed(v) ==
  /\ tunnelPhase = "mounted"
  /\ v # particleSpeed
  /\ particleSpeed' = v
  /\ UNCHANGED << nonTunnelVars, tunnelPhase, now, startTime, loadProgress,
                  loadPending, loadHandle, tunnelClicking, loadCalls,
                  loadCallsAfterUnmount, circle, tunnelFrames, lastAdvance,
                  lastPointer >>

\* const speedMultiplier = isClicking ? 2.5 : 1.0, in tenths
SpeedMultiplierFlat(clicking) == PlainSpeedMultiplier

SpeedMultiplier(clicking) ==
  IF clicking THEN ClickSpeedMultiplier ELSE PlainSpeedMultiplier

\* const finalSpeedMultiplier = speedMultiplier * particleSpeed, in hundredths
FinalSpeedMultiplier(clicking, speed) == SpeedMultiplier(clicking) * speed

\* circle.speed * finalSpeedMultiplier * delta, in thousandths
DepthAdvance(c, clicking, speed, delta) ==
  (c.speed * FinalSpeedMultiplier(clicking, speed) * delta) \div 100000

\* The circle is put back when it passed the camera or left the screen:
\* z = -80 - random * 30.
ResetCircle(c, r) == [c EXCEPT !.z = -80000 - r * 30]

\* The useFrame callback of CosmicTunnel for the circle, with the isClicking
\* and particleSpeed of the last render (pointer events and slider changes are
\* rendered before the next frame).  offScreen stands for the test on
\* position[0] and position[1], which are not modelled.
TunnelFrame(delta, offScreen, r) ==
  /\ tunnelPhase = "mounted"
  /\ tunnelFrames < MaxFrames
  /\ LET advance == DepthAdvance(circle, tunnelClicking, particleSpeed, delta)
         moved == [circle EXCEPT !.z = @ + advance]
     IN /\ lastAdvance' = advance
        /\ circle' = IF moved.z > CameraDepth \/ offScreen
                      THEN ResetCircle(moved, r) ELSE moved
  /\ tunnelFrames' = tunnelFrames + 1
  /\ UNCHANGED << nonTunnelVars, tunnelPhase, now, startTime, loadProgress,
                  loadPending, loadHandle, tunnelClicking, loadCalls,
                  loadCallsAfterUnmount, particleSpeed, lastPointer >>

\* The tunnel in flight: the pointer handlers, the slider and the frames.  The
\* load animation shares no variable with them but tunnelPhase, which it only
\* reads.
FlightNext ==
  \/ \E r \in [speed : RandomValues, z : RandomValues] : TunnelMount(r)
  \/ \E v \in ParticleSpeeds : SetParticleSpeed(v)
  \/ \E delta \in FrameDeltas, offScreen \in BOOLEAN, r \in RandomValues :
       TunnelFrame(delta, offScreen, r)
  \/ PointerDown
  \/ PointerUp
  \/ PointerLeave
  \/ TunnelUnmount

\* The load animation of the tunnel, with the pointer handlers.
TunnelNext ==
  \/ \E r \in [speed : RandomValues, z : RandomValues] : TunnelMount(r)
  \/ Tick
  \/ \E h \in loadPending : animateLoading(h)
  \/ PointerDown
  \/ PointerUp
  \/ PointerLeave
  \/ TunnelUnmount


-----------------------------------------------------------------------------
(* The parametric-surface MathPatterns: GenerativeArtControls *)

CurveTypes == {"waves", "ribbons", "shell", "vortex"}
ColorSchemes == {"gray", "blue", "purple", "golden"}

\* const defaultParams: ArtParams
artDefaultParamsZero ==
  [curveType |-> "waves", complexity |-> 0, amplitude |-> 0, frequency |-> 0,
   rotation |-> 0, monochrome |-> TRUE, colorScheme |-> "gray", density |-> 0]

artDefaultParams ==
  [curveType |-> "waves", complexity |-> 5, amplitude |-> 10, frequency |-> 10,
   rotation |-> 0, monochrome |-> TRUE, colorScheme |-> "gray", density |-> 50]

\* The min, max and step of the range inputs.
ArtSliders ==
  [complexity |-> [min |-> 1, max |-> 10, step |-> 1],
   amplitude |-> [min |-> 1, max |-> 20, step |-> 1],
   frequency |-> [min |-> 1, max |-> 50, step |-> 1],
   rotation |-> [min |-> 0, max |-> 360, step |-> 5],
   density |-> [min |-> 10, max |-> 100, step |-> 5]]

\* The values a range input hands to onChange: min + k * step, up to max.
SliderValues(sl) ==
  {sl.min, sl.max}
    \cup {v \in {sl.min + k * sl.step : k \in 1..SliderSteps} : v <= sl.max}

\* handleChange(key, value): setParams(prev => ({ ...prev, [key]: value }))
ArtHandleChange(prev, key, value) == [prev EXCEPT ![key] = value]

ArtInit == artParams = artDefaultParams

\* A slider is moved.
ArtSlider(key) ==
  /\ \E v \in SliderValues(ArtSliders[key]) :
       /\ v # artParams[key]
       /\ artParams' = ArtHandleChange(artParams, key, v)
  /\ UNCHANGED nonArtVars

\* A Style button.
ArtSetCurveType(type) ==
  /\ artParams' = ArtHandleChange(artParams, "curveType", type)
  /\ UNCHANGED nonArtVars

\* The Monochrome and Color buttons.
ArtSetMonochrome(value) ==
  /\ artParams' = ArtHandleChange(artParams, "monochrome", value)
  /\ UNCHANGED nonArtVars

\* A Color Scheme button.
ArtSetColorScheme(scheme) ==
  /\ artParams' = ArtHandleChange(artParams, "colorScheme", scheme)
  /\ UNCHANGED nonArtVars

\* Reset to Default: setParams(defaultParams)
ArtReset ==
  /\ artParams' = artDefaultParams
  /\ UNCHANGED nonArtVars

ArtNext ==
  \/ \E key \in DOMAIN ArtSliders : ArtSlider(key)
  \/ \E type \in CurveTypes : ArtSetCurveType(type)
  \/ \E value \in BOOLEAN : ArtSetMonochrome(value)
  \/ \E scheme \in ColorSchemes : ArtSetColorScheme(scheme)
  \/ ArtReset

-----------------------------------------------------------------------------
(* generatePositions of CircleArt, in thousandths *)

Distributions == {"grid", "spiral", "wave", "random"}
MotionPatterns == {"orbital", "pulse", "wave", "scatter"}
\* the values Math.random() may return
\* the inputs tried
Times == {0, 700}
Interactivities == {0, 7}
MousePositions == {[x |-> 500, y |-> -250]}

\* the product of two numbers in thousandths
Mul(a, b) == (a * b) \div 1000

\* Math.sin on [0, pi] (Bhaskara's rational approximation)
SinHalf(y) == (16 * y * (Pi - y)) \div ((5 * Pi * Pi - 4 * y * (Pi - y)) \div 1000)

\* Math.sin
Sin(x) ==
  LET y == x % (2 * Pi)
  IN IF y <= Pi THEN SinHalf(y) ELSE 0 - SinHalf(y - Pi)

\* Math.cos
Cos(x) == Sin(x + Pi \div 2)

\* Math.ceil(Math.sqrt(n))
CeilSqrt(n) == CHOOSE g \in 0..n : g * g >= n /\ (g = 0 \/ (g - 1) * (g - 1) < n)

\* Math.ceil(a / b)
CeilDiv(a, b) == (a + b - 1) \div b

\* How many times one particle of the loop calls Math.random().
DrawsPerItem(distribution, motionPattern) ==
  CASE distribution = "grid" -> 0
    [] distribution \in {"spiral", "wave"} -> IF motionPattern = "scatter" THEN 3 ELSE 0
    [] OTHER -> IF motionPattern \in {"orbital", "scatter"} THEN 3 ELSE 2

\* The j-th Math.random() of particle i: the calls run through the stream in
\* order; the outcomes are enumerated as streams of period MaxDraws.
Draw(rnd, p, i, j) ==
  rnd[((DrawsPerItem(p.distribution, p.motionPattern) * i + j - 1) % MaxDraws) + 1]

\* const mouseVector (x, y)
MouseVector(p, mouse) ==
  LET mouseInfluence == p.interactivity * 100
  IN [x |-> Mul(mouse.x, mouseInfluence), y |-> Mul(mouse.y, mouseInfluence)]

\* case 'grid', motion pattern 'scatter': the offsets and z
GridScatterRandom(i, time, rnd, p) ==
  [ox |-> Mul(rnd[((3 * i + 0) % MaxDraws) + 1] - 500, 700),
   oy |-> Mul(rnd[((3 * i + 1) % MaxDraws) + 1] - 500, 700),
   z |-> Mul(rnd[((3 * i + 2) % MaxDraws) + 1] - 500, 700)]

GridScatter(i, time, rnd, p) ==
  [ox |-> Mul(Sin(time + i * 1000), 700),
   oy |-> Mul(Cos(Mul(time, 1300) + i * 700), 700),
   z |-> Mul(Sin(Mul(time, 700) + i * 300), 700)]

\* case 'grid': particle i
GridPosition(p, time, mv, i, rnd) ==
  LET gridSize == CeilSqrt(p.count)
      spacing == 10000 \div gridSize
      x == (i % gridSize) * spacing - (spacing * (gridSize - 1)) \div 2
      y == (i \div gridSize) * spacing - (spacing * (gridSize - 1)) \div 2
      angle == (i * 2 * Pi) \div p.count + time
      pulseScale == Mul(Sin(time * 2 + i * 100), 300) + 1000
      o == CASE p.motionPattern = "orbital" ->
                  [ox |-> Mul(Cos(angle), 500 + (i % 5) * 100),
                   oy |-> Mul(Sin(angle), 500 + (i % 3) * 100),
                   z |-> 0]
             [] p.motionPattern = "pulse" ->
                  [ox |-> Mul(x, pulseScale - 1000),
                   oy |-> Mul(y, pulseScale - 1000),
                   z |-> Mul(Sin(time + i * 50), 500)]
             [] p.motionPattern = "wave" ->
                  [ox |-> Mul(Sin(time * 2 + Mul(y, 500)), 500),
                   oy |-> Mul(Cos(Mul(time, 1500) + Mul(x, 500)), 500),
                   z |-> Mul(Sin(time + Mul(x, 500) + Mul(y, 500)), 500)]
             [] OTHER -> GridScatter(i, time, rnd, p)
  IN [x |-> x + o.ox + Mul(mv.x, 1000 + Sin(time + i * 100)),
      y |-> y + o.oy + Mul(mv.y, 1000 + Cos(time + i * 100)),
      z |-> o.z]

\* case 'spiral': particle i
SpiralPosition(p, time, mv, i, rnd) ==
  LET turns == Min(CeilDiv(p.count, 50), 8)
      angleStep == (2 * Pi * turns) \div p.count
      angle == i * angleStep + Mul(time, 200 + (i % 10) * 10)
      radius == (i * 7000) \div p.count + 500
      x == Mul(Cos(angle), radius)
      y == Mul(Sin(angle), radius)
      orbitAngle == Mul(time, 1000 + (i % 5) * 100)
      pulseScale == Mul(Sin(time * 2 + i * 100), 300) + 1000
      waveOffset == Mul(Sin(angle * 3 + time * 2), 500)
      scatterAmount == 700 + Mul(Sin(time + i * 200), 300)
      q == CASE p.motionPattern = "orbital" ->
                  [x |-> x + Mul(Cos(orbitAngle), 300),
                   y |-> y + Mul(Sin(orbitAngle), 300),
                   z |-> 0]
             [] p.motionPattern = "pulse" ->
                  [x |-> Mul(x, pulseScale),
                   y |-> Mul(y, pulseScale),
                   z |-> Mul(Sin(time + i * 50), 500)]
             [] p.motionPattern = "wave" ->
                  [x |-> x + Mul(waveOffset, Cos(angle + Pi \div 2)),
                   y |-> y + Mul(waveOffset, Sin(angle + Pi \div 2)),
                   z |-> Mul(Sin(time + angle), 500)]
             [] OTHER ->
                  [x |-> x + Mul(Draw(rnd, p, i, 1) - 500, scatterAmount),
                   y |-> y + Mul(Draw(rnd, p, i, 2) - 500, scatterAmount),
                   z |-> Mul(Draw(rnd, p, i, 3) - 500, scatterAmount)]
  IN [x |-> q.x + Mul(mv.x, Sin(time + i * 50) + 1000),
      y |-> q.y + Mul(mv.y, Cos(time + i * 50) + 1000),
      z |-> q.z]

\* case 'wave': particle i
WavePosition(p, time, mv, i, rnd) ==
  LET cols == CeilSqrt(p.count * 2)
      rows == CeilDiv(p.count, cols)
      xSpacing == 12000 \div cols
      ySpacing == 8000 \div rows
      col == i % cols
      row == i \div cols
      x == col * xSpacing - (xSpacing * (cols - 1)) \div 2
      y == row * ySpacing - (ySpacing * (rows - 1)) \div 2
      waveOffset == Mul(Sin(Mul(time, 500) + col * 500 + row * 500), 1500)
      angle == time + (col + row) * 100
      pulseScale == Mul(Sin(time + (col + row) * 100), 300) + 1000
      scatterAmount == 500 + Mul(Sin(time + i * 100), 200)
      q == CASE p.motionPattern = "orbital" ->
                  [x |-> x + Mul(Cos(angle), 300),
                   y |-> y + Mul(Sin(angle), 300),
                   z |-> Mul(waveOffset, 300)]
             [] p.motionPattern = "pulse" ->
                  [x |-> Mul(x, pulseScale),
                   y |-> Mul(y, pulseScale),
                   z |-> Mul(waveOffset, 500)]
             [] p.motionPattern = "wave" ->
                  [x |-> x + Mul(Sin(time + row * 500), 500),
                   y |-> y + Mul(waveOffset, 500),
                   z |-> Mul(Cos(Mul(time, 700) + col * 300), 500)]
             [] OTHER ->
                  [x |-> x + Mul(Draw(rnd, p, i, 1) - 500, scatterAmount),
                   y |-> y + Mul(Draw(rnd, p, i, 2) - 500, scatterAmount),
                   z |-> Mul(waveOffset, 500) + Mul(Draw(rnd, p, i, 3) - 500, scatterAmount)]
  IN [x |-> q.x + Mul(mv.x, Sin(time + col * 200)),
      y |-> q.y + Mul(mv.y, Cos(time + row * 200)),
      z |-> q.z]

\* case 'random': particle i
RandomPosition(p, time, mv, i, rnd) ==
  LET angle == Mul(Draw(rnd, p, i, 1), 2 * Pi)
      radius == Draw(rnd, p, i, 2) * 8
      x == Mul(Cos(angle), radius)
      y == Mul(Sin(angle), radius)
      orbitSpeed == 500 + Mul(Draw(rnd, p, i, 3), 500)
      orbitAngle == Mul(time, orbitSpeed)
      pulseScale == Mul(Sin(time * 2 + i * 100), 300) + 1000
      waveOffset == Mul(Sin(time + Mul(x, 500) + Mul(y, 500)), 800)
      drift == (i * 2 * Pi) \div p.count
      q == CASE p.motionPattern = "orbital" ->
                  [x |-> x + Mul(Cos(orbitAngle), 800),
                   y |-> y + Mul(Sin(orbitAngle), 800),
                   z |-> 0]
             [] p.motionPattern = "pulse" ->
                  [x |-> Mul(x, pulseScale),
                   y |-> Mul(y, pulseScale),
                   z |-> Mul(Sin(time + i * 50), 800)]
             [] p.motionPattern = "wave" ->
                  [x |-> x + Mul(waveOffset, 300),
                   y |-> y + Mul(waveOffset, 300),
                   z |-> waveOffset]
             [] OTHER ->
                  [x |-> x + Mul(Cos(drift + time), 500),
                   y |-> y + Mul(Sin(drift + time), 500),
                   z |-> Mul(Draw(rnd, p, i, 3) - 500, 500)]
  IN [x |-> q.x + Mul(mv.x, 1000 + Mul(Sin(time + i * 100), 500)),
      y |-> q.y + Mul(mv.y, 1000 + Mul(Cos(time + i * 100), 500)),
      z |-> q.z]

\* generatePositions(params, time, mousePos), with the stream rnd of the
\* values Math.random() returns during the call
generatePositions(p, time, mouse, rnd) ==
  LET mv == MouseVector(p, mouse)
  IN [n \in 1..p.count |->
        CASE p.distribution = "grid" -> GridPosition(p, time, mv, n - 1, rnd)
          [] p.distribution = "spiral" -> SpiralPosition(p, time, mv, n - 1, rnd)
          [] p.distribution = "wave" -> WavePosition(p, time, mv, n - 1, rnd)
          [] OTHER -> RandomPosition(p, time, mv, n - 1, rnd)]

\* a stream of Math.random() values long enough for one call
RandomStreams == [1..MaxDraws -> RandomValues]

PosInit ==
  /\ gpParams \in [count : 1..MaxCount, distribution : Distributions,
                   motionPattern : MotionPatterns, interactivity : Interactivities]
  /\ gpTime \in Times
  /\ gpMouse \in MousePositions
  /\ gpCalls = 0
  /\ gpFirst = << >>
  /\ gpSecond = << >>

\* the first call
FirstCall(rnd) ==
  /\ gpCalls = 0
  /\ gpCalls' = 1
  /\ gpFirst' = generatePositions(gpParams, gpTime, gpMouse, rnd)
  /\ UNCHANGED << nonPosVars, gpParams, gpTime, gpMouse, gpSecond >>

\* the second call, with the same params, time and mouse position
SecondCall(rnd) ==
  /\ gpCalls = 1
  /\ gpCalls' = 2
  /\ gpSecond' = generatePositions(gpParams, gpTime, gpMouse, rnd)
  /\ UNCHANGED << nonPosVars, gpParams, gpTime, gpMouse, gpFirst >>

PosNext ==
  \/ \E rnd \in RandomStreams : FirstCall(rnd)
  \/ \E rnd \in RandomStreams : SecondCall(rnd)


-----------------------------------------------------------------------------
(* Supershapes *)

Shapes == {"superellipse", "superellipsoid", "supertoroid", "mobius"}
ShapeKeys == {"1", "2", "3", "4", "a", "A", "w", "W", "x"}

\* const animations = ['rotate', 'pulse', 'morph', 'wave']
animations == << "rotate", "pulse", "morph", "wave" >>

\* the initial shapeParams: the four default parameter records
DefaultShapeParams ==
  [sh \in Shapes |-> [type |-> sh, animation |-> "rotate", wireframe |-> FALSE]]

\* handleKeyDown, shape switching: the shape a key makes active
ShapeForKeyHelp(key, current) ==
  CASE key = "1" -> "superellipse"
    [] key = "2" -> "superellipsoid"
    [] key = "3" -> "mobius"
    [] OTHER -> current

ShapeForKey(key, current) ==
  CASE key = "1" -> "superellipse"
    [] key = "2" -> "superellipsoid"
    [] key = "3" -> "supertoroid"
    [] key = "4" -> "mobius"
    [] OTHER -> current

\* animations.indexOf(a): the 0-based index, -1 when absent
IndexOf(a) ==
  IF \E i \in DOMAIN animations : animations[i] = a
  THEN (CHOOSE i \in DOMAIN animations : animations[i] = a) - 1
  ELSE 0 - 1

\* const nextIndex = (currentIndex + 1) % animations.length
NextIndexClamped(currentIndex) == Min(currentIndex + 1, Len(animations) - 1)

NextIndex(currentIndex) == (currentIndex + 1) % Len(animations)

\* the updater of 'a': the animation of the handler's shape moves on
ChangeAnimation(prev, shape) ==
  [prev EXCEPT ![shape].animation = animations[NextIndex(IndexOf(@)) + 1]]

\* the updater of 'w': the wireframe flag of the handler's shape flips
ToggleWireframe(prev, shape) ==
  [prev EXCEPT ![shape].wireframe = ~@]

\* the Supershapes help lines of the page: the shape each key is said to show
HelpText == [k \in {"1", "2", "3"} |->
               CASE k = "1" -> "Superformula" [] k = "2" -> "Lissajous" [] OTHER -> "Mobius"]

ShapesInit ==
  /\ shapesMounted = TRUE
  /\ activeShape = "superellipsoid"
  /\ shapeParams = DefaultShapeParams
  /\ shapesClicking = FALSE
  /\ aPresses = 0
  /\ aStart = "rotate"

EventsInit ==
  /\ lastEvent = "none"
  /\ eventCount = 0

\* handleKeyDown of Supershapes.  The listener holds the activeShape of the
\* render that registered it; a keydown is a discrete event, so the listener
\* is re-registered before the next key arrives.
ShapesKeyDown(key) ==
  /\ shapesMounted
  /\ eventCount < MaxEvents
  /\ activeShape' = ShapeForKey(key, activeShape)
  /\ shapeParams' = IF key \in {"a", "A"} THEN ChangeAnimation(shapeParams, activeShape)
                    ELSE IF key \in {"w", "W"} THEN ToggleWireframe(shapeParams, activeShape)
                    ELSE shapeParams
  /\ lastEvent' = key
  /\ eventCount' = eventCount + 1
  /\ IF key \in {"a", "A"}
     THEN /\ aPresses' = IF aPresses >= 4 THEN 1 ELSE aPresses + 1
          /\ aStart' = IF aPresses = 0 \/ aPresses >= 4
                       THEN shapeParams[activeShape].animation ELSE aStart
     ELSE /\ aPresses' = 0
          /\ aStart' = "rotate"
  /\ UNCHANGED << nonShapeVars, shapesMounted, shapesClicking >>

\* handlePointerDown of Supershapes
ShapesPointerDown ==
  /\ shapesMounted
  /\ shapesClicking' = TRUE
  /\ UNCHANGED << nonShapeVars, eventVars, shapesMounted, activeShape, shapeParams,
                  aPresses, aStart >>

\* handlePointerUp and handlePointerLeave of Supershapes
ShapesPointerUp ==
  /\ shapesMounted
  /\ shapesClicking' = FALSE
  /\ UNCHANGED << nonShapeVars, eventVars, shapesMounted, activeShape, shapeParams,
                  aPresses, aStart >>

\* The page switches to another visualization: Supershapes is unmounted and
\* its state is gone.
ShapesUnmount ==
  /\ shapesMounted
  /\ shapesMounted' = FALSE
  /\ activeShape' = "superellipsoid"
  /\ shapeParams' = DefaultShapeParams
  /\ shapesClicking' = FALSE
  /\ aPresses' = 0
  /\ aStart' = "rotate"
  /\ UNCHANGED << nonShapeVars, eventVars >>

\* The page switches back: Supershapes is mounted with its initial state.
ShapesMount ==
  /\ ~shapesMounted
  /\ shapesMounted' = TRUE
  /\ UNCHANGED << nonShapeVars, eventVars, activeShape, shapeParams, shapesClicking,
                  aPresses, aStart >>

ShapesNext ==
  \/ \E key \in ShapeKeys : ShapesKeyDown(key)
  \/ ShapesPointerDown
  \/ ShapesPointerUp
  \/ ShapesUnmount
  \/ ShapesMount

-----------------------------------------------------------------------------
(* Home and CircleArt *)

Patterns == {"2d-math", "3d-hex", "circles", "supershapes"}
ShapeTypes == {"circle", "square", "triangle"}
PageKeys == {"c", "C", "h", "H", "x"}

\* defaultParams of CircleArt (type and interactivity)
defaultParams == [type |-> "circle", interactivity |-> DefaultInteractivity]

\* Home.handleKeyDown: the new showControls
HomeKeyDown(key, shown) == IF key = "c" THEN ~shown ELSE shown

\* CircleArt.handleKeyDown: the new showShapeControls
CircleArtKeyDownLower(key, shown) == IF key = "h" THEN ~shown ELSE shown

CircleArtKeyDown(key, shown) == IF key = "h" \/ key = "H" THEN ~shown ELSE shown

\* What CircleArt renders besides the canvas.
RenderCircleArt(shown) ==
  {"toggle-button"}
    \cup (IF shown THEN {"shape-controls"} ELSE {})
    \cup (IF ~shown THEN {"hint"} ELSE {})

CircleArtMounted == activePattern = "circles"

PageInit ==
  /\ activePattern = "2d-math"
  /\ showControls = TRUE
  /\ isDarkMode = TRUE
  /\ selectedShape = "circle"
  /\ params = defaultParams
  /\ showShapeControls = FALSE

\* A keydown on the window: the listener of Home runs, and the listener of
\* CircleArt when CircleArt is mounted.
PageKeyDown(key) ==
  /\ eventCount < MaxEvents
  /\ showControls' = HomeKeyDown(key, showControls)
  /\ showShapeControls' = IF CircleArtMounted
                          THEN CircleArtKeyDown(key, showShapeControls)
                          ELSE showShapeControls
  /\ lastEvent' = key
  /\ eventCount' = eventCount + 1
  /\ UNCHANGED << nonPageVars, activePattern, isDarkMode, selectedShape, params >>

\* A visualization button of the control panel: setActivePattern(p).  CircleArt
\* is mounted with its initial state when the page switches to 'circles' and
\* unmounted when it switches away.
SelectPattern(p) ==
  /\ eventCount < MaxEvents
  /\ showControls
  /\ activePattern' = p
  /\ IF p # activePattern
     THEN /\ params' = defaultParams
          /\ showShapeControls' = FALSE
     ELSE UNCHANGED << params, showShapeControls >>
  /\ lastEvent' = "click:pattern"
  /\ eventCount' = eventCount + 1
  /\ UNCHANGED << nonPageVars, showControls, isDarkMode, selectedShape >>

\* The theme button: setIsDarkMode(prev => !prev)
ToggleDarkMode ==
  /\ eventCount < MaxEvents
  /\ showControls
  /\ isDarkMode' = ~isDarkMode
  /\ lastEvent' = "click:theme"
  /\ eventCount' = eventCount + 1
  /\ UNCHANGED << nonPageVars, activePattern, showControls, selectedShape, params,
                  showShapeControls >>

\* The Hide button: setShowControls(false)
HideControls ==
  /\ eventCount < MaxEvents
  /\ showControls
  /\ showControls' = FALSE
  /\ lastEvent' = "click:hide"
  /\ eventCount' = eventCount + 1
  /\ UNCHANGED << nonPageVars, activePattern, isDarkMode, selectedShape, params,
                  showShapeControls >>

\* The button shown while the controls are hidden: setShowControls(true)
ShowControlsButton ==
  /\ eventCount < MaxEvents
  /\ ~showControls
  /\ showControls' = TRUE
  /\ lastEvent' = "click:show"
  /\ eventCount' = eventCount + 1
  /\ UNCHANGED << nonPageVars, activePattern, isDarkMode, selectedShape, params,
                  showShapeControls >>

\* The show/hide button of CircleArt: setShowShapeControls(prev => !prev)
ToggleShapeControls ==
  /\ eventCount < MaxEvents
  /\ CircleArtMounted
  /\ showShapeControls' = ~showShapeControls
  /\ lastEvent' = "click:toggle"
  /\ eventCount' = eventCount + 1
  /\ UNCHANGED << nonPageVars, activePattern, showControls, isDarkMode,
                  selectedShape, params >>

\* ShapeArtControls.handleChange('type', value): the shape type is set and
\* onShapeChange(value) tells the page.
ChangeShapeType(value) ==
  /\ eventCount < MaxEvents
  /\ CircleArtMounted
  /\ "shape-controls" \in RenderCircleArt(showShapeControls)
  /\ params' = [params EXCEPT !.type = value]
  /\ selectedShape' = value
  /\ lastEvent' = "change:type"
  /\ eventCount' = eventCount + 1
  /\ UNCHANGED << nonPageVars, activePattern, showControls, isDarkMode,
                  showShapeControls >>

\* ShapeArtControls.handleChange('interactivity', value): the slider
ChangeInteractivity(value) ==
  /\ eventCount < MaxEvents
  /\ CircleArtMounted
  /\ "shape-controls" \in RenderCircleArt(showShapeControls)
  /\ params' = [params EXCEPT !.interactivity = value]
  /\ lastEvent' = "change:interactivity"
  /\ eventCount' = eventCount + 1
  /\ UNCHANGED << nonPageVars, activePattern, showControls, isDarkMode,
                  selectedShape, showShapeControls >>

\* Reset to Default: setParams(defaultParams); onShapeChange(defaultParams.type)
ResetToDefault ==
  /\ eventCount < MaxEvents
  /\ CircleArtMounted
  /\ "shape-controls" \in RenderCircleArt(showShapeControls)
  /\ params' = defaultParams
  /\ selectedShape' = defaultParams.type
  /\ lastEvent' = "click:reset"
  /\ eventCount' = eventCount + 1
  /\ UNCHANGED << nonPageVars, activePattern, showControls, isDarkMode,
                  showShapeControls >>

PageNext ==
  \/ \E key \in PageKeys : PageKeyDown(key)
  \/ \E p \in Patterns : SelectPattern(p)
  \/ ToggleDarkMode
  \/ HideControls
  \/ ShowControlsButton
  \/ ToggleShapeControls
  \/ \E v \in ShapeTypes : ChangeShapeType(v)
  \/ \E v \in InteractivityMin..InteractivityMax : ChangeInteractivity(v)
  \/ ResetToDefault

-----------------------------------------------------------------------------
(* The specifications: one component runs, the others rest *)

CanvasIdle ==
  /\ kind = "Sunburst"
  /\ canvas = "ok"
  /\ phase = "rendered"
  /\ listeners = {}
  /\ mousePos = 0
  /\ isClicking = FALSE
  /\ effectDirty = FALSE
  /\ rafPending = {}
  /\ animationFrameRef = 0
  /\ nextHandle = 1
  /\ timeRef = 0
  /\ wormholeRef = 0
  /\ particles = << >>
  /\ baseParticles = << >>
  /\ updates = << >>
  /\ particlesRef = << >>
  /\ syncDirty = FALSE
  /\ life = << >>
  /\ animateCount = 0
  /\ animateAfterUnmount = 0
  /\ effectRuns = 0

PosIdle ==
  /\ gpParams = [count |-> 1, distribution |-> "grid", motionPattern |-> "orbital",
                 interactivity |-> DefaultInteractivity]
  /\ gpTime = 0
  /\ gpMouse = [x |-> 0, y |-> 0]
  /\ gpCalls = 0
  /\ gpFirst = << >>
  /\ gpSecond = << >>

CanvasSpecInit ==
  CanvasInit /\ TunnelInit /\ PosIdle /\ ShapesInit /\ PageInit /\ EventsInit /\ ArtInit

TunnelSpecInit ==
  CanvasIdle /\ TunnelInit /\ PosIdle /\ ShapesInit /\ PageInit /\ EventsInit /\ ArtInit

PosSpecInit ==
  CanvasIdle /\ TunnelInit /\ PosInit /\ ShapesInit /\ PageInit /\ EventsInit /\ ArtInit

ShapesSpecInit ==
  CanvasIdle /\ TunnelInit /\ PosIdle /\ ShapesInit /\ PageInit /\ EventsInit /\ ArtInit

PageSpecInit ==
  CanvasIdle /\ TunnelInit /\ PosIdle /\ ShapesInit /\ PageInit /\ EventsInit /\ ArtInit

SpecCanvas == CanvasSpecInit /\ [][CanvasNext]_vars

SpecTunnel == TunnelSpecInit /\ [][TunnelNext]_vars

FlightSpecInit ==
  CanvasIdle /\ TunnelInit /\ PosIdle /\ ShapesInit /\ PageInit /\ EventsInit /\ ArtInit

SpecFlight == FlightSpecInit /\ [][FlightNext]_vars

ArtSpecInit ==
  CanvasIdle /\ TunnelInit /\ PosIdle /\ ShapesInit /\ PageInit /\ EventsInit /\ ArtInit

SpecArt == ArtSpecInit /\ [][ArtNext]_vars

SpecPositions == PosSpecInit /\ [][PosNext]_vars

SpecShapes == ShapesSpecInit /\ [][ShapesNext]_vars

SpecPage == PageSpecInit /\ [][PageNext]_vars

-----------------------------------------------------------------------------
(* The claims *)

\* C1: in the canvas components, once the component is unmounted the pending
\* animation-frame request is cancelled and no animate step ever executes
\* again, whatever mouse moves, clicks and frames came before the unmount.
C1_NoAnimateAfterUnmount ==
  phase = "unmounted" => (rafPending = {} /\ animateAfterUnmount = 0)

\* C1, its case: the canvas HexagonalCircles was unmounted after mouse moves,
\* a mouse-down and animation frames.
C1_Witness ==
  /\ kind = "Geodesic"
  /\ phase = "unmounted"
  /\ isClicking
  /\ mousePos = MaxMouse
  /\ effectRuns >= 3
  /\ animateCount > effectRuns

\* C2: in the cosmic-tunnel HexagonalCircles, after an unmount animateLoading
\* never runs again and setLoadProgress is never called.
C2_LoadAnimationCleanedUp ==
  tunnelPhase = "unmounted" => (loadPending = {} /\ loadCallsAfterUnmount = 0)

\* C3: at every moment at most one animation-frame request of the component
\* is pending, also when the animation effect is torn down and run again
\* between two frames.
C3_SingleAnimationLoop == Cardinality(rafPending) <= 1

\* C3, its case: the effect was re-run several times between frames and one
\* request is pending.
C3_Witness ==
  /\ phase = "mounted"
  /\ effectRuns >= 3
  /\ animateCount > effectRuns
  /\ ~effectDirty
  /\ Cardinality(rafPending) = 1

\* the canvas or its 2D context was unavailable when the effects ran
Unavailable == canvas # "ok" /\ phase # "rendered"

\* what the early return of the effects leaves untouched
EffectsIdle ==
  /\ listeners = {}
  /\ rafPending = {}
  /\ animationFrameRef = 0
  /\ effectRuns = 0
  /\ animateCount = 0
  /\ timeRef = 0
  /\ wormholeRef = 0
  /\ mousePos = 0
  /\ ~isClicking
  /\ ~effectDirty
  /\ updates = << >>

\* C4: when the canvas or its 2D context is unavailable at effect time, no
\* listener is registered, no frame is requested, no state is changed and
\* nothing retries later: the component stays idle until unmount.
C4_IdleWhenUnavailable ==
  Unavailable => (EffectsIdle /\ particles = << >> /\ particlesRef = << >> /\ life = << >>)

\* What the guards of the effects do ensure: the effects register no
\* listener, request no frame, run no animate step and never retry, and the
\* mouse-driven components change no state; only in SunburstEffect with a
\* canvas but no 2D context does handleClick still append particles to the
\* state, which nothing then animates.
EffectsIdleWhenUnavailable ==
  Unavailable =>
    /\ EffectsIdle
    /\ particles # << >> => (kind = "Sunburst" /\ canvas = "noctx")
    /\ particlesRef = particles
    /\ \A i \in DOMAIN life : life[i] >= 1 /\ i \in SeqToSet(particles)

\* the parameters for which generatePositions never calls Math.random()
CallsNoRandom(p) ==
  \/ p.distribution = "grid"
  \/ p.distribution \in {"spiral", "wave"} /\ p.motionPattern # "scatter"

\* C5 as stated: two calls of generatePositions with equal params, time and
\* mouse position return equal position lists, for every distribution and
\* every motion pattern.
C5_Deterministic == gpCalls = 2 => gpFirst = gpSecond

\* C5 as amended: the two calls return equal lists for the distribution
\* 'grid' and for 'spiral' and 'wave' with a motion pattern other than
\* 'scatter'.
C5_DeterministicWithoutRandom ==
  (gpCalls = 2 /\ CallsNoRandom(gpParams)) => gpFirst = gpSecond

\* C5, its case: two calls for a grid with the scatter pattern, a moved
\* mouse and a later time.
C5_Witness ==
  /\ gpCalls = 2
  /\ gpParams.distribution = "grid"
  /\ gpParams.motionPattern = "scatter"
  /\ gpParams.count = MaxCount
  /\ gpParams.interactivity = DefaultInteractivity
  /\ gpTime # 0
  /\ Len(gpFirst) = MaxCount
  /\ gpFirst = gpSecond

\* a key was handled in this step
KeyHandled(keys) == eventCount' # eventCount /\ lastEvent' \in keys

\* the shape a help line of the page names
HelpShape(k) == IF HelpText[k] = "Mobius" THEN "mobius" ELSE "superellipse"

\* C6: the help text of the page holds: a keydown of '3' makes the Mobius
\* strip the active shape, and '1' the superformula shape, whatever shape was
\* active before.
C6_HelpTextHolds ==
  [][KeyHandled({"1", "3"}) => activeShape' = HelpShape(lastEvent')]_vars

\* the shapes the keys 1 to 4 stand for
KeyShape ==
  [k \in {"1", "2", "3", "4"} |->
     CASE k = "1" -> "superellipse" [] k = "2" -> "superellipsoid"
       [] k = "3" -> "supertoroid" [] OTHER -> "mobius"]

\* the active shape has its own parameters
ActiveShapeHasParams ==
  /\ activeShape \in DOMAIN shapeParams
  /\ shapeParams[activeShape].type = activeShape

CycleNext ==
  [a \in {"rotate", "pulse", "morph", "wave"} |->
     CASE a = "rotate" -> "pulse" [] a = "pulse" -> "morph"
       [] a = "morph" -> "wave" [] OTHER -> "rotate"]

\* C8: each keydown of 'a' or 'A' moves the animation of the active shape one
\* step on in rotate -> pulse -> morph -> wave -> rotate and leaves the other
\* shapes alone; four presses in a row restore the animation.
C8_AnimationCycle ==
  [][KeyHandled({"a", "A"}) =>
       /\ activeShape' = activeShape
       /\ shapeParams'[activeShape].animation = CycleNext[shapeParams[activeShape].animation]
       /\ \A sh \in Shapes \ {activeShape} : shapeParams'[sh] = shapeParams[sh]
       /\ aPresses' = 4 => shapeParams'[activeShape].animation = aStart']_vars

\* C8, its case: four presses in a row on the Mobius strip.
C8_Witness ==
  /\ activeShape = "mobius"
  /\ aPresses = 4
  /\ lastEvent \in {"a", "A"}
  /\ shapeParams["mobius"].animation = aStart

\* C9: every keydown of the C key, whether the event reports 'c' or 'C',
\* flips showControls.
C9_CKeyToggles ==
  [][KeyHandled({"c", "C"}) => showControls' = ~showControls]_vars

\* of the shape-controls panel and the hint, exactly one is rendered: the
\* panel when showShapeControls is true
OnePanelRendered ==
  CircleArtMounted =>
    /\ Cardinality(RenderCircleArt(showShapeControls) \cap {"shape-controls", "hint"}) = 1
    /\ "shape-controls" \in RenderCircleArt(showShapeControls) <=> showShapeControls

\* C10: in CircleArt every keydown of 'h' or 'H' and every click of the
\* show/hide button flips showShapeControls, and in every state exactly one of
\* the shape-controls panel (when true) and the hint (when false) is rendered.
C10_ShapeControlsToggle ==
  /\ OnePanelRendered
  /\ [][/\ (CircleArtMounted /\ KeyHandled({"h", "H", "click:toggle"}))
             => showShapeControls' = ~showShapeControls
        /\ OnePanelRendered']_vars

\* C10, its case: 'H' (Shift held) opened the shape controls.
C10_Witness ==
  /\ CircleArtMounted
  /\ lastEvent = "H"
  /\ showShapeControls
  /\ "shape-controls" \in RenderCircleArt(showShapeControls)

\* isClicking is true exactly from a pointerdown until the next pointerup or
\* pointerleave
HeldExactly == tunnelClicking <=> lastPointer = "down"

\* what a frame adds to the depth with the multiplier m (in tenths) and the
\* frame delta (in milliseconds), in thousandths
AdvanceWith(m, delta) == (circle.speed * m * particleSpeed * delta) \div 100000

C12_ArtParamsInRange ==
  /\ artParams.complexity \in 1..10
  /\ artParams.amplitude \in 1..20
  /\ artParams.frequency \in 1..50
  /\ artParams.rotation \in 0..360
  /\ artParams.density \in 10..100

\* C12, its case: every slider stands at its upper end, and style and colours
\* were changed.
C12_Witness ==
  /\ artParams.complexity = 10
  /\ artParams.amplitude = 20
  /\ artParams.frequency = 50
  /\ artParams.rotation = 360
  /\ artParams.density = 100
  /\ artParams.curveType = "vortex"
  /\ ~artParams.monochrome
  /\ artParams.colorScheme = "golden"

\* C13: in CircleArt the interactivity parameter is within 1..10 in every
\* reachable state, after any sequence of slider changes and resets.
C13_InteractivityInRange == params.interactivity \in 1..10

\* C14: whenever CircleArt is mounted, the selectedShape of the page equals
\* the type in the params of CircleArt, also after a shape was chosen and the
\* user switched to another visualization and back to 'circles'.
C14_SelectedShapeTracksType == CircleArtMounted => selectedShape = params.type

C16_StepsOnlyInFrames ==
  [][(kind = "Geodesic" /\ animateCount' # animateCount) =>
       /\ animateCount' = animateCount + 1
       /\ timeRef' = timeRef + 3
       /\ effectRuns = 0 \/ effectRuns' = effectRuns]_vars

=============================================================================
